---- MODULE Spec2Model ----
(***************************************************************************)
(* A model of jalapi's detection-and-fusion pipeline:                      *)
(*   - EndpointProcessor.normalize_path / is_endpoint (endpoint_processor) *)
(*   - simple_chunk_code                              (utils/chunk.py)     *)
(*   - LLMAnalyzer.analyze_endpoints                  (llm_analyzer.py)    *)
(*   - RegexAnalyzer.discover_endpoints               (regex_analyzer.py)  *)
(*   - JavaScriptAnalysisAgent._deduplicate_endpoints / _generate_stats /  *)
(*     _endpoint_to_dict / analyze                    (analysis_agent.py)  *)
(*   - main                                           (src/main.py)        *)
(* Python strings are sequences of one-character strings, so that split,   *)
(* join, strip, sorting and regular-expression substitution are computed   *)
(* character by character.  Confidences are integers in hundredths.        *)
(* Optional values (None or a value) are sequences of length 0 or 1.       *)
(***************************************************************************)
EXTENDS Integers, Sequences, FiniteSets, TLC

VARIABLES
    \* _deduplicate_endpoints
    endpoints,          \* the candidates the for-loop has consumed so far
    unique_endpoints,   \* the dict, as a sequence of entries in insertion order
    fuse_pc,            \* "idle", "loop" or "done"
    fuse_result,        \* the returned list
    \* simple_chunk_code
    code,               \* the source text
    max_size,
    overlap,
    start,              \* the loop's start offset (0-based)
    chunks,             \* the list of (chunk, context, start_line)
    chunk_spans,        \* history: the (start, end) offsets of each chunk
    chunk_pc,           \* "idle", "loop" or "done"
    \* LLMAnalyzer.analyze_endpoints
    llm_chunks,         \* the chunks to analyze, each with its start_line
    llm_idx,            \* the index of the chunk the for-loop is at
    all_endpoints,      \* the list being built and returned
    llm_calls,          \* history: the chunk indexes client.chat was called for
    llm_log,            \* history: what each chunk's iteration did
    llm_pc,             \* "idle", "loop", "done" or "raised"
    \* EndpointProcessor.normalize_path
    norm_input,         \* the string normalize_path is first called on
    norm_outputs,       \* the results of the successive calls
    norm_pc,            \* "idle" or "run"
    \* JavaScriptAnalysisAgent.analyze
    js_matches,         \* the pattern matches in the file, in the order found
    js_response,        \* what the capability answers for the file's chunk
    regex_endpoints,
    llm_endpoints,
    fused_endpoints,    \* analyze's all_endpoints
    analyze_pc,         \* "idle", "start", "regex_done", "llm_done", "fused" or "done"
    results,            \* the dict analyze returns, as a list of zero or one
    \* JavaScriptAnalysisAgent._generate_stats
    stats_endpoints,    \* the list the statistics are computed on
    stats_idx,          \* the index of the endpoint the for-loop is at
    stats,              \* the counters, and the dict returned in the end
    stats_pc,           \* "idle", "loop" or "done"
    \* main (src/main.py)
    main_args,          \* the parsed command line: debug, json, output
    main_fault,         \* the step of this run that raises, or "none"
    main_endpoints,     \* the endpoint dicts of the results, if analyze returns
    stdout,             \* the lines printed so far, each by its kind
    exit_status,        \* the status the process exits with, once it has
    main_pc             \* "idle", "start", "loaded", "analyzed", "printed",
                        \* "caught", "returned" or "raised"

fuseVars == <<endpoints, unique_endpoints, fuse_pc, fuse_result>>
chunkVars == <<code, max_size, overlap, start, chunks, chunk_spans, chunk_pc>>

llmVars == <<llm_chunks, llm_idx, all_endpoints, llm_calls, llm_log, llm_pc>>

normVars == <<norm_input, norm_outputs, norm_pc>>

analyzeVars ==
    <<js_matches, js_response, regex_endpoints, llm_endpoints, results, fused_endpoints,
      analyze_pc, results>>

statsVars == <<stats_endpoints, stats_idx, stats, stats_pc>>

mainVars == <<main_args, main_fault, main_endpoints, stdout, exit_status, main_pc>>

vars == <<fuseVars, chunkVars, llmVars, normVars, analyzeVars, statsVars, mainVars>>

\* the variables of a component that is not running
FuseIdle ==
    /\ endpoints = <<>>
    /\ unique_endpoints = <<>>
    /\ fuse_pc = "idle"
    /\ fuse_result = <<>>

ChunkIdle ==
    /\ code = <<>>
    /\ max_size = 0
    /\ overlap = 0
    /\ start = 0
    /\ chunks = <<>>
    /\ chunk_spans = <<>>
    /\ chunk_pc = "idle"

LLMIdle ==
    /\ llm_chunks = <<>>
    /\ llm_idx = 0
    /\ all_endpoints = <<>>
    /\ llm_calls = <<>>
    /\ llm_log = <<>>
    /\ llm_pc = "idle"

NormIdle ==
    /\ norm_input = <<>>
    /\ norm_outputs = <<>>
    /\ norm_pc = "idle"

AnalyzeIdle ==
    /\ js_matches = <<>>
    /\ js_response = <<>>
    /\ regex_endpoints = <<>>
    /\ llm_endpoints = <<>>
    /\ fused_endpoints = <<>>
    /\ analyze_pc = "idle"
    /\ results = <<>>

StatsIdle ==
    /\ stats_endpoints = <<>>
    /\ stats_idx = 0
    /\ stats = <<>>
    /\ stats_pc = "idle"

MainIdle ==
    /\ main_args = <<>>
    /\ main_fault = "none"
    /\ main_endpoints = <<>>
    /\ stdout = <<>>
    /\ exit_status = <<>>
    /\ main_pc = "idle"

(***************************************************************************)
(* Strings                                                                 *)
(***************************************************************************)

\* The code point of the characters the model uses (Python compares strings
\* by code point).  "bt" stands for the backtick, which a TLA+ string cannot
\* hold.
CharCode(c) ==
    CASE c = "\n" -> 10
      [] c = " "  -> 32
      [] c = "\"" -> 34
      [] c = "$"  -> 36
      [] c = "'"  -> 39
      [] c = ")"  -> 41
      [] c = "+"  -> 43
      [] c = "/"  -> 47
      [] c = ";"  -> 59
      [] c = "bt" -> 96
      [] c = "a"  -> 97
      [] c = "e"  -> 101
      [] c = "g"  -> 103
      [] c = "i"  -> 105
      [] c = "l"  -> 108
      [] c = "m"  -> 109
      [] c = "p"  -> 112
      [] c = "r"  -> 114
      [] c = "u"  -> 117
      [] c = "x"  -> 120
      [] c = "{"  -> 123
      [] c = "}"  -> 125

\* a < b for Python strings
RECURSIVE StrLess(_, _)
StrLess(a, b) ==
    IF b = <<>> THEN FALSE
    ELSE IF a = <<>> THEN TRUE
    ELSE IF a[1] = b[1] THEN StrLess(Tail(a), Tail(b))
    ELSE CharCode(a[1]) < CharCode(b[1])

\* s.split(sep) for a one-character separator: the list of pieces
RECURSIVE SplitOn(_, _)
SplitOn(s, sep) ==
    IF \A i \in 1..Len(s) : s[i] # sep THEN <<s>>
    ELSE LET i == CHOOSE k \in 1..Len(s) :
                      s[k] = sep /\ \A j \in 1..(k - 1) : s[j] # sep
         IN  <<SubSeq(s, 1, i - 1)>> \o SplitOn(SubSeq(s, i + 1, Len(s)), sep)

\* sep.join(list)
RECURSIVE JoinWith(_, _)
JoinWith(list, sep) ==
    IF list = <<>> THEN <<>>
    ELSE IF Len(list) = 1 THEN list[1]
    ELSE list[1] \o <<sep>> \o JoinWith(Tail(list), sep)

\* sorted(S) for a set of strings
RECURSIVE SortedStrs(_)
SortedStrs(S) ==
    IF S = {} THEN <<>>
    ELSE LET m == CHOOSE x \in S : \A y \in S \ {x} : StrLess(x, y)
         IN  <<m>> \o SortedStrs(S \ {m})

Range(s) == {s[i] : i \in 1..Len(s)}

IsWhitespace(c) == c \in {" ", "\n"}

\* s.strip(): leading and trailing whitespace removed
RECURSIVE StripWs(_)
StripWs(s) ==
    IF s = <<>> THEN s
    ELSE IF IsWhitespace(s[1]) THEN StripWs(Tail(s))
    ELSE IF IsWhitespace(s[Len(s)]) THEN StripWs(SubSeq(s, 1, Len(s) - 1))
    ELSE s

Max(a, b) == IF a >= b THEN a ELSE b
Min(a, b) == IF a <= b THEN a ELSE b

(***************************************************************************)
(* models.py                                                               *)
(***************************************************************************)

STR_regex == <<"r", "e", "g", "e", "x">>
STR_llm == <<"l", "l", "m">>
STR_llm_regex == STR_llm \o <<"+">> \o STR_regex

AuthInfo(required, type, location) ==
    [required |-> required, type |-> type, location |-> location]

\* Endpoint(...): context None and '' are both <<>> (every reader of context
\* in the code treats them alike); line_number None is <<>>.
Endpoint(path, method, auth, confidence, detector, context, line_number) ==
    [path |-> path, method |-> method, auth |-> auth,
     confidence |-> confidence, detector |-> detector,
     context |-> context, line_number |-> line_number]

(***************************************************************************)
(* JavaScriptAnalysisAgent._deduplicate_endpoints                          *)
(***************************************************************************)

\* key = (endpoint.path, endpoint.method)
DedupKeyPathOnly(endpoint) == <<endpoint.path>>
DedupKey(endpoint) == <<endpoint.path, endpoint.method>>

DictKeys(d) == {d[i].key : i \in 1..Len(d)}
DictGet(d, key) == d[CHOOSE i \in 1..Len(d) : d[i].key = key].val
\* d[key] = val: a new key goes last, an old key keeps its place
DictSet(d, key, val) ==
    IF key \in DictKeys(d)
    THEN [i \in 1..Len(d) |-> IF d[i].key = key THEN [key |-> key, val |-> val]
                                                 ELSE d[i]]
    ELSE Append(d, [key |-> key, val |-> val])
\* list(d.values())
DictValues(d) == [i \in 1..Len(d) |-> d[i].val]

\* existing_detectors = set(existing.detector.split("+"))
ExistingDetectors(existing) == Range(SplitOn(existing.detector, "+"))

\* current_detector not in existing_detectors
IsNewDetector(existing, endpoint) ==
    endpoint.detector \notin ExistingDetectors(existing)

\* combined_detector = "+".join(sorted(existing_detectors | {current_detector}))
CombinedDetector(existing, endpoint) ==
    JoinWith(SortedStrs(ExistingDetectors(existing) \cup {endpoint.detector}), "+")

\* highest_confidence = max(existing.confidence, endpoint.confidence)
HighestConfidenceOfCandidate(existing, endpoint) == endpoint.confidence
HighestConfidence(existing, endpoint) ==
    Max(existing.confidence, endpoint.confidence)

\* final_method
FinalMethod(existing, endpoint) ==
    IF existing.method = "UNKNOWN" /\ endpoint.method # "UNKNOWN"
    THEN endpoint.method
    ELSE existing.method

\* combined_endpoint = Endpoint(...): line_number is not passed, so it is None
CombinedEndpointKeepsLine(existing, endpoint) ==
    Endpoint(endpoint.path,
             FinalMethod(existing, endpoint),
             IF endpoint.auth.required THEN endpoint.auth ELSE existing.auth,
             HighestConfidence(existing, endpoint),
             CombinedDetector(existing, endpoint),
             StripWs(existing.context \o <<"\n">> \o endpoint.context),
             existing.line_number)
CombinedEndpoint(existing, endpoint) ==
    Endpoint(endpoint.path,
             FinalMethod(existing, endpoint),
             IF endpoint.auth.required THEN endpoint.auth ELSE existing.auth,
             HighestConfidence(existing, endpoint),
             CombinedDetector(existing, endpoint),
             StripWs(existing.context \o <<"\n">> \o endpoint.context),
             <<>>)

\* the else branch: same detector type, keep the one with higher confidence
SameDetectorSurvivor(existing, endpoint) ==
    IF endpoint.confidence > existing.confidence THEN endpoint ELSE existing

\* one iteration of the for-loop on dict d
DedupIterationByPath(d, endpoint) ==
    LET samePath == {i \in 1..Len(d) : d[i].val.path = endpoint.path}
    IN  IF samePath = {}
        THEN DictSet(d, DedupKey(endpoint), endpoint)
        ELSE LET key == d[CHOOSE i \in samePath : \A j \in samePath : i <= j].key
                 existing == DictGet(d, key)
             IN  IF IsNewDetector(existing, endpoint)
                 THEN DictSet(d, key, CombinedEndpoint(existing, endpoint))
                 ELSE DictSet(d, key, SameDetectorSurvivor(existing, endpoint))
DedupIteration(d, endpoint) ==
    LET key == DedupKey(endpoint)
    IN  IF key \notin DictKeys(d)
        THEN DictSet(d, key, endpoint)
        ELSE LET existing == DictGet(d, key)
             IN  IF IsNewDetector(existing, endpoint)
                 THEN DictSet(d, key, CombinedEndpoint(existing, endpoint))
                 ELSE DictSet(d, key, SameDetectorSurvivor(existing, endpoint))

\* the dict after the whole loop over list
RECURSIVE DedupLoop(_, _)
DedupLoop(d, list) ==
    IF list = <<>> THEN d
    ELSE DedupLoop(DedupIteration(d, Head(list)), Tail(list))

\* _deduplicate_endpoints(list)
DeduplicateEndpoints(list) == DictValues(DedupLoop(<<>>, list))

(***************************************************************************)
(* The candidates the fuser is run on                                      *)
(***************************************************************************)

MaxCands == 3

STR_path_a == <<"/", "a">>
AuthNone == AuthInfo(FALSE, "None", "None")
AuthBearer == AuthInfo(TRUE, "Bearer", "header")

FuseMethods == {"GET", "UNKNOWN"}
FuseConfidences == {70, 85}
FuseDetectors == {STR_regex, STR_llm, STR_llm_regex}

\* what a detector fills in: the pattern detector passes no context and its
\* match's line, the semantic detector its evidence and the chunk's line, and
\* an already fused endpoint has a context and no line
CandidateOf(method, confidence, detector, auth) ==
    Endpoint(STR_path_a, method, auth, confidence, detector,
             IF detector = STR_regex THEN <<>> ELSE <<"e">>,
             IF detector = STR_regex THEN <<1>>
             ELSE IF detector = STR_llm THEN <<2>> ELSE <<>>)

Candidates ==
    {CandidateOf(m, c, d, a) :
        m \in FuseMethods, c \in FuseConfidences, d \in FuseDetectors,
        a \in {AuthNone, AuthBearer}}

FuseInit ==
    /\ endpoints = <<>>
    /\ unique_endpoints = <<>>
    /\ fuse_pc = "loop"
    /\ fuse_result = <<>>
    /\ ChunkIdle
    /\ LLMIdle
    /\ NormIdle
    /\ AnalyzeIdle
    /\ StatsIdle
    /\ MainIdle

\* an iteration whose key is not yet in the dict
DedupFirst(endpoint) ==
    /\ fuse_pc = "loop"
    /\ Len(endpoints) < MaxCands
    /\ DedupKey(endpoint) \notin DictKeys(unique_endpoints)
    /\ endpoints' = Append(endpoints, endpoint)
    /\ unique_endpoints' = DedupIteration(unique_endpoints, endpoint)
    /\ UNCHANGED <<fuse_pc, fuse_result, chunkVars, llmVars, normVars, analyzeVars,
                   statsVars, mainVars>>

\* an iteration that merges a new detector into the survivor
DedupMerge(endpoint) ==
    /\ fuse_pc = "loop"
    /\ Len(endpoints) < MaxCands
    /\ DedupKey(endpoint) \in DictKeys(unique_endpoints)
    /\ IsNewDetector(DictGet(unique_endpoints, DedupKey(endpoint)), endpoint)
    /\ endpoints' = Append(endpoints, endpoint)
    /\ unique_endpoints' = DedupIteration(unique_endpoints, endpoint)
    /\ UNCHANGED <<fuse_pc, fuse_result, chunkVars, llmVars, normVars, analyzeVars,
                   statsVars, mainVars>>

\* an iteration on a repeat observation of a detector
DedupSame(endpoint) ==
    /\ fuse_pc = "loop"
    /\ Len(endpoints) < MaxCands
    /\ DedupKey(endpoint) \in DictKeys(unique_endpoints)
    /\ ~IsNewDetector(DictGet(unique_endpoints, DedupKey(endpoint)), endpoint)
    /\ endpoints' = Append(endpoints, endpoint)
    /\ unique_endpoints' = DedupIteration(unique_endpoints, endpoint)
    /\ UNCHANGED <<fuse_pc, fuse_result, chunkVars, llmVars, normVars, analyzeVars,
                   statsVars, mainVars>>

\* return list(unique_endpoints.values())
DedupReturn ==
    /\ fuse_pc = "loop"
    /\ fuse_pc' = "done"
    /\ fuse_result' = DictValues(unique_endpoints)
    /\ UNCHANGED <<endpoints, unique_endpoints, chunkVars, llmVars, normVars, analyzeVars,
                   statsVars, mainVars>>

FuseNext ==
    \/ \E endpoint \in Candidates : DedupFirst(endpoint)
    \/ \E endpoint \in Candidates : DedupMerge(endpoint)
    \/ \E endpoint \in Candidates : DedupSame(endpoint)
    \/ DedupReturn

SpecFuse == FuseInit /\ [][FuseNext]_vars

(***************************************************************************)
(* Claims about the fuser                                                  *)
(***************************************************************************)

KeyOf(e) == <<e.path, e.method>>
KeysOf(list) == {KeyOf(list[i]) : i \in 1..Len(list)}
DetectorNames(e) == Range(SplitOn(e.detector, "+"))
SingleDetectorInput(list) ==
    \A i \in 1..Len(list) : list[i].detector \in {STR_regex, STR_llm}

\* C1: the returned list holds no two endpoints with the same (path, method)
\* and exactly one endpoint for each distinct (path, method) of the input.
C1_OneSurvivorPerKey ==
    fuse_pc = "done" =>
        /\ \A i, j \in 1..Len(fuse_result) :
               i # j => KeyOf(fuse_result[i]) # KeyOf(fuse_result[j])
        /\ KeysOf(fuse_result) = KeysOf(endpoints)

\* three candidates, two of them with one key, fused to two endpoints
C1_Witness ==
    /\ fuse_pc = "done"
    /\ Len(endpoints) = 3
    /\ Cardinality(KeysOf(endpoints)) = 2
    /\ Len(fuse_result) = 2

\* the same detector names, confidence and method for every key
SameOutcome(r1, r2) ==
    /\ KeysOf(r1) = KeysOf(r2)
    /\ \A i \in 1..Len(r1) : \A j \in 1..Len(r2) :
           KeyOf(r1[i]) = KeyOf(r2[j]) =>
               /\ DetectorNames(r1[i]) = DetectorNames(r2[j])
               /\ r1[i].confidence = r2[j].confidence
               /\ r1[i].method = r2[j].method

Permuted(list, p) == [i \in 1..Len(list) |-> list[p[i]]]

\* C2: fusing any permutation of a candidate list of 'regex' and 'llm'
\* candidates gives, for every key, the same set of detector names, the same
\* confidence and the same method.
C2_FusionCommutative ==
    (fuse_pc = "done" /\ SingleDetectorInput(endpoints)) =>
        \A p \in Permutations(1..Len(endpoints)) :
            SameOutcome(fuse_result, DeduplicateEndpoints(Permuted(endpoints, p)))

StrictlyIncreasing(names) ==
    \A i, j \in 1..Len(names) : i < j => StrLess(names[i], names[j])

C4_ConfidenceAtLeastMax ==
    /\ \A i \in 1..Len(endpoints) :
           \E j \in 1..Len(unique_endpoints) :
               /\ KeyOf(unique_endpoints[j].val) = KeyOf(endpoints[i])
               /\ unique_endpoints[j].val.confidence >= endpoints[i].confidence
    /\ fuse_pc = "done" =>
           \A i \in 1..Len(endpoints) :
               \E j \in 1..Len(fuse_result) :
                   /\ KeyOf(fuse_result[j]) = KeyOf(endpoints[i])
                   /\ fuse_result[j].confidence >= endpoints[i].confidence

\* regex 0.7 and llm 0.85 for one key fuse to llm+regex with 0.85
C4_Witness ==
    /\ fuse_pc = "done"
    /\ Len(endpoints) = 2
    /\ endpoints[1].detector = STR_regex /\ endpoints[1].confidence = 70
    /\ endpoints[2].detector = STR_llm /\ endpoints[2].confidence = 85
    /\ Len(fuse_result) = 1
    /\ fuse_result[1].detector = STR_llm_regex
    /\ fuse_result[1].confidence = 85

\* the detector names of the candidates of list that have the key
NamesOfKey(list, key) ==
    UNION {DetectorNames(list[i]) : i \in {k \in 1..Len(list) : KeyOf(list[k]) = key}}

\* C19: provenance is never lost: while the fuser processes a list of
\* 'regex' and 'llm' candidates, the detector names of the survivor of a key
\* are those of all the candidates with that key consumed so far, and so are
\* those of every returned endpoint.
C19_ProvenanceNeverLost ==
    SingleDetectorInput(endpoints) =>
        /\ \A j \in 1..Len(unique_endpoints) :
               DetectorNames(unique_endpoints[j].val)
                   = NamesOfKey(endpoints, unique_endpoints[j].key)
        /\ fuse_pc = "done" =>
               \A j \in 1..Len(fuse_result) :
                   DetectorNames(fuse_result[j])
                       = NamesOfKey(endpoints, KeyOf(fuse_result[j]))

\* every survivor has the path and the method of its key
SurvivorsMatchKeys ==
    \A j \in 1..Len(unique_endpoints) :
        unique_endpoints[j].key = KeyOf(unique_endpoints[j].val)

\* candidates of one path with different methods are returned apart
MethodsStayApart ==
    fuse_pc = "done" =>
        \A i \in 1..Len(endpoints) :
            \E j \in 1..Len(fuse_result) :
                /\ fuse_result[j].path = endpoints[i].path
                /\ fuse_result[j].method = endpoints[i].method

\* a step on a candidate whose key is in the map: the survivor, the
\* candidate and the new survivor have the same method, and final_method is
\* the survivor's method
MethodKeptByStep ==
    (Len(endpoints') = Len(endpoints) + 1
        /\ KeyOf(endpoints'[Len(endpoints')]) \in DictKeys(unique_endpoints)) =>
        LET endpoint == endpoints'[Len(endpoints')]
            existing == DictGet(unique_endpoints, KeyOf(endpoint))
            survivor == DictGet(unique_endpoints', KeyOf(endpoint))
        IN  /\ existing.method = endpoint.method
            /\ survivor.method = endpoint.method
            /\ FinalMethod(existing, endpoint) = existing.method

Delimiters ==
    << <<"\n", "}">>,
       <<"\n", "}", ")", ";">>,
       <<"\n", " ", " ", "}", ")", ";">>,
       <<"\n", " ", " ", " ", " ", "}", ")", ";">> >>

\* s.rfind(sub, lo, hi): the highest 0-based offset p with lo <= p and
\* p + len(sub) <= hi where sub occurs, or -1
RFind(s, sub, lo, hi) ==
    LET found == {p \in lo..(Min(hi, Len(s)) - Len(sub)) :
                     \A k \in 1..Len(sub) : s[p + k] = sub[k]}
    IN  IF found = {} THEN -1
        ELSE CHOOSE p \in found : \A q \in found : q <= p

\* the for-loop over the delimiters from the k-th on: the end offset it
\* leaves (the first delimiter found after st wins)
RECURSIVE SnapFromAnyMatch(_, _, _, _)
SnapFromAnyMatch(k, s, st, end) ==
    IF k > Len(Delimiters) THEN end
    ELSE LET last_delimiter == RFind(s, Delimiters[k], st, end)
         IN  IF last_delimiter # -1
             THEN last_delimiter
             ELSE SnapFromAnyMatch(k + 1, s, st, end)
RECURSIVE SnapFrom(_, _, _, _)
SnapFrom(k, s, st, end) ==
    IF k > Len(Delimiters) THEN end
    ELSE LET last_delimiter == RFind(s, Delimiters[k], st, end)
         IN  IF last_delimiter > st
             THEN last_delimiter + Len(Delimiters[k])
             ELSE SnapFrom(k + 1, s, st, end)

\* end = min(start + max_size, len(code))
RawEnd(s, st, size) == Min(st + size, Len(s))

\* end after the attempt to end at a logical boundary
ChunkEnd(s, st, size) ==
    IF RawEnd(s, st, size) < Len(s)
    THEN SnapFrom(1, s, st, RawEnd(s, st, size))
    ELSE RawEnd(s, st, size)

\* s.count("\n") + 1 over s[:st]
StartLine(s, st) == Cardinality({i \in 1..st : s[i] = "\n"}) + 1

\* progress = max(max_size // 3, max_size - overlap)
Progress(size, ovl) == Max(size \div 3, size - ovl)

\* start = min(end, start + progress)
NextStartNoMin(st, end, size, ovl) == st + Progress(size, ovl)
NextStart(st, end, size, ovl) == Min(end, st + Progress(size, ovl))

\* the source texts: up to MaxPieces pieces, each a character or a delimiter
MaxPieces == 4
MaxSize == 12
MaxOverlap == 3
\* iterations allowed beyond one per character, to keep a loop that makes no
\* progress finite
MaxSpin == 2

Pieces ==
    {<<"x">>, <<"\n", "}">>, <<"\n", " ", " ", "}", ")", ";">>,
     <<"\n", " ", " ", " ", " ", "}", ")", ";">>}

RECURSIVE Texts(_)
Texts(n) ==
    IF n = 0 THEN {<<>>}
    ELSE Texts(n - 1) \cup {t \o q : t \in Texts(n - 1), q \in Pieces}

ChunkInit ==
    /\ code \in Texts(MaxPieces)
    /\ max_size \in 1..MaxSize
    /\ overlap \in 0..MaxOverlap
    /\ start = 0
    /\ chunks = <<>>
    /\ chunk_spans = <<>>
    /\ chunk_pc = "loop"
    /\ FuseIdle
    /\ LLMIdle
    /\ NormIdle
    /\ AnalyzeIdle
    /\ StatsIdle
    /\ MainIdle

\* one pass of the while-loop body with the given end offset
ChunkBody(end) ==
    /\ chunks' = Append(chunks, [chunk |-> SubSeq(code, start + 1, end),
                                 context |-> <<>>,
                                 start_line |-> StartLine(code, start)])
    /\ chunk_spans' = Append(chunk_spans, [start |-> start, end |-> end])
    /\ start' = NextStart(start, end, max_size, overlap)
    /\ UNCHANGED <<code, max_size, overlap, chunk_pc, fuseVars, llmVars, normVars, analyzeVars,
                   statsVars, mainVars>>

\* an iteration whose chunk ends at start + max_size or at the end of code
ChunkRaw ==
    /\ chunk_pc = "loop"
    /\ start < Len(code)
    /\ Len(chunks) < Len(code) + MaxSpin
    /\ ChunkEnd(code, start, max_size) = RawEnd(code, start, max_size)
    /\ ChunkBody(ChunkEnd(code, start, max_size))

\* an iteration whose chunk end is moved back to a delimiter
ChunkSnapped ==
    /\ chunk_pc = "loop"
    /\ start < Len(code)
    /\ Len(chunks) < Len(code) + MaxSpin
    /\ ChunkEnd(code, start, max_size) # RawEnd(code, start, max_size)
    /\ ChunkBody(ChunkEnd(code, start, max_size))

\* the loop condition fails: return chunks
ChunkReturn ==
    /\ chunk_pc = "loop"
    /\ ~(start < Len(code))
    /\ chunk_pc' = "done"
    /\ UNCHANGED <<code, max_size, overlap, start, chunks, chunk_spans, fuseVars, llmVars, normVars, analyzeVars,
                   statsVars, mainVars>>

ChunkNext == ChunkRaw \/ ChunkSnapped \/ ChunkReturn

SpecChunk == ChunkInit /\ [][ChunkNext]_vars

(***************************************************************************)
(* Claims about the chunker                                                *)
(***************************************************************************)

ValidChunkArgs == Len(code) > 0 /\ max_size >= 1 /\ overlap >= 0 /\ overlap < max_size

\* C5: for a non-empty source and 0 <= overlap < max_size, the chunks' start
\* offsets are strictly increasing and the last chunk ends at the end of the
\* source.
C5_StartsIncreaseEndAtEof ==
    (chunk_pc \in {"loop", "done"} /\ ValidChunkArgs) =>
        /\ \A i, j \in 1..Len(chunk_spans) :
               i < j => chunk_spans[i].start < chunk_spans[j].start
        /\ chunk_pc = "done" =>
               /\ Len(chunk_spans) >= 1
               /\ chunk_spans[Len(chunk_spans)].end = Len(code)

\* a finished run of three or more chunks, one of them ended on a delimiter
C5_Witness ==
    /\ chunk_pc = "done"
    /\ ValidChunkArgs
    /\ overlap > 0
    /\ Len(chunk_spans) >= 3
    /\ \E i \in 1..Len(chunk_spans) :
           /\ chunk_spans[i].end < Len(code)
           /\ chunk_spans[i].end < chunk_spans[i].start + max_size

\* C6: the loop terminates for every max_size >= 1 and overlap >= 0: every
\* iteration strictly increases the start offset.
C6_EveryIterationAdvances ==
    [][chunks' # chunks => start' > start]_vars

\* C15: for a non-empty source and 0 <= overlap < max_size the chunks leave
\* no gap: the first chunk starts at offset 0, every later chunk starts at
\* or before the end of the chunk before it, and in the end every offset of
\* the source lies inside a chunk.
C15_NoGap ==
    (chunk_pc \in {"loop", "done"} /\ ValidChunkArgs) =>
        /\ Len(chunk_spans) >= 1 => chunk_spans[1].start = 0
        /\ \A i \in 1..(Len(chunk_spans) - 1) :
               chunk_spans[i + 1].start <= chunk_spans[i].end
        /\ chunk_pc = "done" =>
               \A p \in 0..(Len(code) - 1) :
                   \E i \in 1..Len(chunk_spans) :
                       chunk_spans[i].start <= p /\ p < chunk_spans[i].end

\* a finished run in which a chunk was ended on a delimiter before
\* start + progress, so that the next chunk starts exactly at its end
C15_Witness ==
    /\ chunk_pc = "done"
    /\ ValidChunkArgs
    /\ \E i \in 1..(Len(chunk_spans) - 1) :
           /\ chunk_spans[i].end < chunk_spans[i].start + Progress(max_size, overlap)
           /\ chunk_spans[i + 1].start = chunk_spans[i].end

\* C16: for 0 <= overlap < max_size, every two consecutive chunks of which
\* the earlier does not end at the end of the source share at least overlap
\* characters: earlier.end - later.start >= overlap.
C16_OverlapMargin ==
    (chunk_pc \in {"loop", "done"} /\ ValidChunkArgs) =>
        \A i \in 1..(Len(chunk_spans) - 1) :
            chunk_spans[i].end # Len(code) =>
                chunk_spans[i].end - chunk_spans[i + 1].start >= overlap

\* C17: for 0 <= overlap < max_size, every iteration whose chunk does not
\* end at the end of the source advances the start offset by
\* max(max_size div 3, max_size - overlap), and so by no less than a third
\* of max_size.
C17_AdvanceIsProgress ==
    [][(chunks' # chunks /\ ValidChunkArgs
            /\ chunk_spans'[Len(chunk_spans')].end # Len(code)) =>
           /\ start' - start = Progress(max_size, overlap)
           /\ start' - start >= max_size \div 3]_vars

\* C22: for a non-empty source no longer than max_size, with
\* 0 <= overlap < max_size, simple_chunk_code returns exactly one chunk,
\* equal to the whole source; and the end offsets of the chunks are strictly
\* increasing (no chunk lies wholly inside the chunk before it).
C22_OneChunkForShortSource ==
    (chunk_pc \in {"loop", "done"} /\ ValidChunkArgs) =>
        /\ (chunk_pc = "done" /\ Len(code) <= max_size) =>
               /\ Len(chunks) = 1
               /\ chunks[1].chunk = code
        /\ \A i \in 1..(Len(chunk_spans) - 1) :
               chunk_spans[i].end < chunk_spans[i + 1].end

(***************************************************************************)
(* LLMAnalyzer.analyze_endpoints (core/llm_analyzer.py)                    *)
(***************************************************************************)

\* A value of the capability's response is tagged with its type; a key of a
\* dict is absent (<<>>) or holds one value.
JAbsent == <<>>
JStr(v) == <<[t |-> "str", v |-> v]>>
JNum(n) == <<[t |-> "num", v |-> n]>>
JNull == <<[t |-> "null", v |-> <<>>]>>
JDict(d) == <<[t |-> "dict", v |-> d]>>

\* what ep.get(key) is in a condition: absent, None, '' and 0 are false
Truthy(opt) ==
    /\ opt # <<>>
    /\ CASE opt[1].t = "str" -> opt[1].v # <<>>
         [] opt[1].t = "num" -> opt[1].v # 0
         [] opt[1].t = "null" -> FALSE
         [] OTHER -> TRUE

\* one record of response["endpoints"]
Rec(isdict, path, method, confidence, evidence, usage_context, auth, line_number) ==
    [isdict |-> isdict, path |-> path, method |-> method,
     confidence |-> confidence, evidence |-> evidence,
     usage_context |-> usage_context, auth |-> auth,
     line_number |-> line_number]

\* if not isinstance(ep, dict) or "path" not in ep: continue
Skipped(ep) == ~ep.isdict \/ ep.path = <<>>

\* ep.get("evidence") and ep.get("usage_context")
WellEvidenced(ep) == Truthy(ep.evidence) /\ Truthy(ep.usage_context)

\* the statements of the loop body that raise on a value of the wrong type:
\* base_confidence + 0.1, ep.get("auth", {}).get(...), relative_line > 0
RecordRaises(ep) ==
    \/ WellEvidenced(ep) /\ ep.confidence # <<>> /\ ep.confidence[1].t # "num"
    \/ ep.auth # <<>> /\ ep.auth[1].t # "dict"
    \/ ep.line_number # <<>> /\ ep.line_number[1].t # "num"

\* base_confidence, in hundredths
BaseConfidence(ep) ==
    LET base == IF ep.confidence = <<>> THEN 80 ELSE ep.confidence[1].v
    IN  IF WellEvidenced(ep) THEN Min(100, base + 10) ELSE base

\* auth_info = AuthInfo(required=..., type=..., location=...)
RecordAuth(ep) ==
    IF ep.auth = <<>> THEN AuthInfo(FALSE, "None", "None")
    ELSE AuthInfo(ep.auth[1].v.required, ep.auth[1].v.type, ep.auth[1].v.location)

\* absolute_line
AbsoluteLine(ep, start_line) ==
    LET relative_line == IF ep.line_number = <<>> THEN 0 ELSE ep.line_number[1].v
    IN  IF relative_line > 0 THEN start_line + relative_line - 1 ELSE start_line

\* context=ep.get("usage_context", ep.get("evidence", ""))
RecordContext(ep) ==
    IF ep.usage_context # <<>>
    THEN (IF ep.usage_context[1].t = "str" THEN ep.usage_context[1].v ELSE <<>>)
    ELSE IF ep.evidence # <<>> /\ ep.evidence[1].t = "str" THEN ep.evidence[1].v
    ELSE <<>>

\* endpoint = Endpoint(path=ep["path"], ...)
RecordEndpoint(ep, start_line) ==
    Endpoint(ep.path[1].v,
             IF ep.method = <<>> THEN "UNKNOWN" ELSE ep.method[1].v,
             RecordAuth(ep),
             BaseConfidence(ep),
             STR_llm,
             RecordContext(ep),
             <<AbsoluteLine(ep, start_line)>>)

\* the for-loop over response["endpoints"], appending to acc until a record
\* raises: the list it leaves and whether it raised
RECURSIVE ProcessRecords(_, _, _)
ProcessRecords(recs, start_line, acc) ==
    IF recs = <<>> THEN [appended |-> acc, raised |-> FALSE]
    ELSE IF Skipped(Head(recs)) THEN ProcessRecords(Tail(recs), start_line, acc)
    ELSE IF RecordRaises(Head(recs)) THEN [appended |-> acc, raised |-> TRUE]
    ELSE ProcessRecords(Tail(recs), start_line,
                        Append(acc, RecordEndpoint(Head(recs), start_line)))

\* a response of client.chat: the call raises, or it returns an object that
\* has no "endpoints" key, or whose "endpoints" is null, or is a list
Response(kind, recs) == [kind |-> kind, endpoints |-> recs]

\* the body of the try block on a response: what is appended to
\* all_endpoints and whether an exception reached the except clause
TryBlock(resp, start_line) ==
    IF resp.kind # "ok" THEN [appended |-> <<>>, raised |-> TRUE]
    ELSE ProcessRecords(resp.endpoints, start_line, <<>>)

\* the except clause logs and the for-loop goes on to the next chunk
AfterFailureAbort(i) == Len(llm_chunks) + 1
AfterFailure(i) == i + 1

MaxLLMChunks == 2
MaxRecords == 2

STR_path_a_a == <<"/", "a", "/", "a">>

RecNotDict == Rec(FALSE, JAbsent, JAbsent, JAbsent, JAbsent, JAbsent, JAbsent, JAbsent)
RecNoPath == Rec(TRUE, JAbsent, JStr("GET"), JAbsent, JAbsent, JAbsent, JAbsent, JAbsent)
RecPlain == Rec(TRUE, JStr(STR_path_a), JAbsent, JAbsent, JAbsent, JAbsent, JAbsent, JAbsent)
RecFull ==
    Rec(TRUE, JStr(STR_path_a_a), JStr("GET"), JNum(85), JStr(<<"e">>), JStr(<<"u">>),
        JDict([required |-> TRUE, type |-> "Bearer", location |-> "header"]), JNum(2))
RecAuthNull == Rec(TRUE, JStr(STR_path_a), JAbsent, JAbsent, JAbsent, JAbsent, JNull, JAbsent)
RecLineNull == Rec(TRUE, JStr(STR_path_a_a), JAbsent, JAbsent, JAbsent, JAbsent, JAbsent, JNull)

Records == {RecNotDict, RecNoPath, RecPlain, RecFull, RecAuthNull, RecLineNull}

RECURSIVE SeqsUpTo(_, _)
SeqsUpTo(S, n) ==
    IF n = 0 THEN {<<>>}
    ELSE SeqsUpTo(S, n - 1) \cup {Append(q, x) : q \in SeqsUpTo(S, n - 1), x \in S}

Responses ==
    {Response(k, <<>>) : k \in {"chat_raises", "no_endpoints_key", "endpoints_null"}}
        \cup {Response("ok", recs) : recs \in SeqsUpTo(Records, MaxRecords)}

\* the chunks: the i-th starts on line 2i - 1
LLMChunkLists == {[i \in 1..n |-> [start_line |-> 2 * i - 1]] : n \in 0..MaxLLMChunks}

LLMInit ==
    /\ llm_chunks \in LLMChunkLists
    /\ llm_idx = 1
    /\ all_endpoints = <<>>
    /\ llm_calls = <<>>
    /\ llm_log = <<>>
    /\ llm_pc = "loop"
    /\ FuseIdle
    /\ ChunkIdle
    /\ NormIdle
    /\ AnalyzeIdle
    /\ StatsIdle
    /\ MainIdle

\* the usable records of a response, as the paths they carry
RECURSIVE UsablePaths(_)
UsablePaths(recs) ==
    IF recs = <<>> THEN <<>>
    ELSE IF Head(recs).isdict /\ Head(recs).path # <<>>
         THEN <<Head(recs).path[1].v>> \o UsablePaths(Tail(recs))
         ELSE UsablePaths(Tail(recs))

LLMIteration(resp, out) ==
    /\ all_endpoints' = all_endpoints \o out.appended
    /\ llm_calls' = Append(llm_calls, llm_idx)
    /\ llm_log' = Append(llm_log,
                         [failed |-> out.raised,
                          usable |-> UsablePaths(resp.endpoints),
                          appended |-> Len(out.appended)])
    /\ UNCHANGED <<llm_chunks, llm_pc, fuseVars, chunkVars, normVars, analyzeVars,
                   statsVars, mainVars>>

\* an iteration whose try block completes
LLMChunkOk(resp) ==
    /\ llm_pc = "loop"
    /\ llm_idx <= Len(llm_chunks)
    /\ ~TryBlock(resp, llm_chunks[llm_idx].start_line).raised
    /\ LLMIteration(resp, TryBlock(resp, llm_chunks[llm_idx].start_line))
    /\ llm_idx' = llm_idx + 1

\* an iteration whose try block raises: the except clause catches it
LLMChunkFailed(resp) ==
    /\ llm_pc = "loop"
    /\ llm_idx <= Len(llm_chunks)
    /\ TryBlock(resp, llm_chunks[llm_idx].start_line).raised
    /\ LLMIteration(resp, TryBlock(resp, llm_chunks[llm_idx].start_line))
    /\ llm_idx' = AfterFailure(llm_idx)

\* return all_endpoints
LLMReturn ==
    /\ llm_pc = "loop"
    /\ llm_idx > Len(llm_chunks)
    /\ llm_pc' = "done"
    /\ UNCHANGED <<llm_chunks, llm_idx, all_endpoints, llm_calls, llm_log,
                   fuseVars, chunkVars, normVars, analyzeVars,
                   statsVars, mainVars>>

LLMNext ==
    \/ \E resp \in Responses : LLMChunkOk(resp)
    \/ \E resp \in Responses : LLMChunkFailed(resp)
    \/ LLMReturn

SpecLLM == LLMInit /\ [][LLMNext]_vars

(***************************************************************************)
(* Claims about the semantic detector                                      *)
(***************************************************************************)

\* C7: a chunk whose capability call or response parsing fails contributes
\* no endpoint to the returned list.
C7_FailedChunkContributesNothing ==
    \A i \in 1..Len(llm_log) : llm_log[i].failed => llm_log[i].appended = 0

\* the position in all_endpoints before the i-th chunk's endpoints
RECURSIVE AppendedBefore(_)
AppendedBefore(i) ==
    IF i <= 1 THEN 0 ELSE AppendedBefore(i - 1) + llm_log[i - 1].appended

\* C8: whatever chunks fail, the capability is invoked exactly once for
\* every chunk in order, the call returns normally, and the returned list
\* holds every endpoint of every chunk that did not fail.
C8_PartialFailureIsolation ==
    /\ llm_pc # "raised"
    /\ llm_pc \in {"loop", "done"} => llm_calls = [i \in 1..(llm_idx - 1) |-> i]
    /\ llm_pc = "done" =>
           /\ llm_calls = [i \in 1..Len(llm_chunks) |-> i]
           /\ \A i \in 1..Len(llm_chunks) :
                  ~llm_log[i].failed =>
                      /\ llm_log[i].appended = Len(llm_log[i].usable)
                      /\ \A k \in 1..Len(llm_log[i].usable) :
                             LET e == all_endpoints[AppendedBefore(i) + k]
                             IN  /\ e.path = llm_log[i].usable[k]
                                 /\ e.detector = STR_llm
                                 /\ e.line_number # <<>>
                                 /\ e.line_number[1] >= llm_chunks[i].start_line

\* the first chunk fails, the second does not and its endpoints are returned
C8_Witness ==
    /\ llm_pc = "done"
    /\ Len(llm_chunks) = 2
    /\ llm_log[1].failed
    /\ ~llm_log[2].failed
    /\ llm_log[2].appended = 2
    /\ Len(all_endpoints) >= 2

(***************************************************************************)
(* analyze_endpoints on one chunk whose response holds one record, for     *)
(* every combination of the fields a record may carry.  A path of None     *)
(* and a path of '' are both <<>> in the emitted Endpoint.                 *)
(***************************************************************************)

\* the largest confidence a record carries, in tenths
MaxTenths == 11

RecPaths == {JAbsent, JNull, JStr(<<>>), JStr(STR_path_a)}
RecMethods == {JAbsent, JStr("GET")}
RecConfidences == {JAbsent} \cup {JNum(10 * k) : k \in (-1)..MaxTenths}
RecEvidences == {JAbsent, JStr(<<"e">>)}
RecUsages == {JAbsent, JStr(<<"u">>)}
RecAuths ==
    {JAbsent, JNull, JDict([required |-> TRUE, type |-> "Bearer", location |-> "header"])}
RecLines == {JAbsent, JNum(2)}

RecordDomain ==
    {RecNotDict} \cup
    {Rec(TRUE, p, m, c, e, u, a, l) :
        p \in RecPaths, m \in RecMethods, c \in RecConfidences,
        e \in RecEvidences, u \in RecUsages, a \in RecAuths, l \in RecLines}

OneRecordResponses == {Response("ok", <<r>>) : r \in RecordDomain}

RecordInit ==
    /\ LLMInit
    /\ llm_chunks = <<[start_line |-> 1]>>

RecordNext ==
    \/ \E resp \in OneRecordResponses : LLMChunkOk(resp)
    \/ \E resp \in OneRecordResponses : LLMChunkFailed(resp)
    \/ LLMReturn

SpecRecord == RecordInit /\ [][RecordNext]_vars

\* C11: every endpoint the semantic detector emits has a non-empty path (a
\* record whose path is missing, null or '' never becomes an endpoint).
C11_EmittedPathNonEmpty ==
    \A i \in 1..Len(all_endpoints) : all_endpoints[i].path # <<>>

\* C12: every endpoint the semantic detector emits has a confidence within
\* [0.0, 1.0], whatever confidence the record carries or omits.
C12_ConfidenceInUnitInterval ==
    \A i \in 1..Len(all_endpoints) :
        /\ all_endpoints[i].confidence >= 0
        /\ all_endpoints[i].confidence <= 100

(***************************************************************************)
(* EndpointProcessor.normalize_path (core/endpoint_processor.py)           *)
(***************************************************************************)

\* the offset of the first "}" of s at or after offset i, or 0
FirstClose(s, i) ==
    IF \E j \in i..Len(s) : s[j] = "}"
    THEN CHOOSE j \in i..Len(s) : s[j] = "}" /\ \A k \in i..(j - 1) : s[k] # "}"
    ELSE 0

\* whether \${([^}]+)} matches at the head of s: "${", one or more
\* characters other than "}", then "}"
TemplateAtHead(s) ==
    /\ Len(s) >= 4
    /\ s[1] = "$"
    /\ s[2] = "{"
    /\ s[3] # "}"
    /\ FirstClose(s, 4) # 0

\* re.sub(r"\${([^}]+)}", r"{\1}", url): the matches are found left to
\* right in the original text and do not overlap
RECURSIVE TemplateSubOnce(_)
TemplateSubOnce(s) ==
    IF s = <<>> THEN <<>>
    ELSE IF TemplateAtHead(s)
    THEN <<"{">> \o SubSeq(s, 3, FirstClose(s, 4))
             \o TemplateSubOnce(SubSeq(s, FirstClose(s, 4) + 1, Len(s)))
    ELSE <<s[1]>> \o TemplateSubOnce(Tail(s))

QuoteChars == {"bt", "'", "\""}

\* url.strip("`'\"")
RECURSIVE StripQuotes(_)
StripQuotes(s) ==
    IF s = <<>> THEN s
    ELSE IF s[1] \in QuoteChars THEN StripQuotes(Tail(s))
    ELSE IF s[Len(s)] \in QuoteChars THEN StripQuotes(SubSeq(s, 1, Len(s) - 1))
    ELSE s

\* re.sub(r"/+", "/", url)
RECURSIVE CollapseSlashes(_)
CollapseSlashes(s) ==
    IF Len(s) < 2 THEN s
    ELSE IF s[1] = "/" /\ s[2] = "/" THEN CollapseSlashes(Tail(s))
    ELSE <<s[1]>> \o CollapseSlashes(Tail(s))

\* normalize_path(url)
normalize_path(url) == CollapseSlashes(StripQuotes(TemplateSubOnce(url)))

MaxNormLen == 5

NormAlphabet == {"$", "{", "}", "/", "'", "a"}

NormInit ==
    /\ norm_input \in SeqsUpTo(NormAlphabet, MaxNormLen)
    /\ norm_outputs = <<>>
    /\ norm_pc = "run"
    /\ FuseIdle
    /\ ChunkIdle
    /\ LLMIdle
    /\ AnalyzeIdle
    /\ StatsIdle
    /\ MainIdle

\* normalize_path called on the input
NormalizeInput ==
    /\ norm_pc = "run"
    /\ norm_outputs = <<>>
    /\ norm_outputs' = <<normalize_path(norm_input)>>
    /\ UNCHANGED <<norm_input, norm_pc, fuseVars, chunkVars, llmVars, analyzeVars,
                   statsVars, mainVars>>

\* normalize_path called on its own result
NormalizeAgain ==
    /\ norm_pc = "run"
    /\ Len(norm_outputs) = 1
    /\ norm_outputs' = Append(norm_outputs, normalize_path(norm_outputs[1]))
    /\ UNCHANGED <<norm_input, norm_pc, fuseVars, chunkVars, llmVars, analyzeVars,
                   statsVars, mainVars>>

NormNext == NormalizeInput \/ NormalizeAgain

SpecNorm == NormInit /\ [][NormNext]_vars

\* C9: normalize_path is idempotent: normalizing a normalized string gives
\* the same string.
C9_NormalizeIdempotent ==
    Len(norm_outputs) = 2 => norm_outputs[2] = norm_outputs[1]

(***************************************************************************)
(* EndpointProcessor.is_endpoint (core/endpoint_processor.py)              *)
(* The texts of the model hold no upper-case letter, so re.IGNORECASE      *)
(* changes nothing.                                                        *)
(***************************************************************************)

\* sub occurs in s
Has(s, sub) == RFind(s, sub, 0, Len(s)) # -1

\* sub$ matches: sub ends s, or ends s before a final newline
EndsWith(s, sub) ==
    \/ Len(s) >= Len(sub) /\ SubSeq(s, Len(s) - Len(sub) + 1, Len(s)) = sub
    \/ /\ Len(s) >= Len(sub) + 1
       /\ s[Len(s)] = "\n"
       /\ SubSeq(s, Len(s) - Len(sub), Len(s) - 1) = sub

IsDigit(c) == c \in {"0", "1", "2", "3", "4", "5", "6", "7", "8", "9"}
IsWordChar(c) ==
    \/ IsDigit(c)
    \/ c \in {"_", "a", "b", "c", "d", "e", "f", "g", "h", "i", "j", "k", "l", "m",
              "n", "o", "p", "q", "r", "s", "t", "u", "v", "w", "x", "y", "z"}

\* the patterns that are plain text (an optional character or a character
\* class gives one text for each reading)
ApiSubstrings ==
    {<<"/", "a", "p", "i", "/">>,
     <<"/", "g", "r", "a", "p", "h", "q", "l">>,
     <<"/", "r", "e", "s", "t", "/">>, <<"/", "a", "u", "t", "h", "/">>,
     <<"/", "o", "a", "u", "t", "h", "/">>,
     <<"/", "o", "a", "u", "t", "h", "2", "/">>,
     <<"/", "r", "p", "c", "/">>,
     <<"/", "w", "e", "b", "h", "o", "o", "k">>,
     <<"/", "d", "a", "t", "a">>,
     <<"/", "s", "e", "r", "v", "i", "c", "e">>,
     <<"/", "e", "v", "e", "n", "t", "/">>,
     <<"/", "e", "v", "e", "n", "t", "s", "/">>,
     <<"/", "u", "s", "e", "r", "/">>,
     <<"/", "u", "s", "e", "r", "s", "/">>, <<"/", "m", "l", "-">>,
     <<"/", "m", "l", "/">>, <<"/", "s", "y", "n", "c">>,
     <<"/", "r", "e", "p", "o", "r", "t", "/">>,
     <<"/", "r", "e", "p", "o", "r", "t", "s", "/">>,
     <<"/", "t", "a", "s", "k", "s", "/">>,
     <<"/", "e", "x", "p", "o", "r", "t", "/">>,
     <<"/", "v", "e", "r", "s", "i", "o", "n", "-", "i", "n", "f", "o", "/">>,
     <<"/", "f", "e", "a", "t", "u", "r", "e", "s", "/">>,
     <<"/", "p", "r", "e", "f", "e", "r", "e", "n", "c", "e", "s">>,
     <<"/", "a", "c", "t", "i", "v", "i", "t", "y", "/">>,
     <<"/", "m", "f", "a", "/">>}

\* the patterns anchored with $
ApiSuffixes ==
    {<<"/", "p", "r", "o", "f", "i", "l", "e">>,
     <<"/", "c", "h", "a", "l", "l", "e", "n", "g", "e">>,
     <<"/", "p", "r", "e", "d", "i", "c", "t">>,
     <<"/", "t", "o", "k", "e", "n">>,
     <<"/", "r", "e", "f", "r", "e", "s", "h">>,
     <<"/", "r", "e", "v", "o", "k", "e">>, <<"/", "t", "e", "s", "t">>}

\* /v\d+/
HasVersionSegment(s) ==
    \E i, j \in 1..Len(s) :
        /\ i + 2 < j
        /\ s[i] = "/" /\ s[i + 1] = "v" /\ s[j] = "/"
        /\ \A k \in (i + 2)..(j - 1) : IsDigit(s[k])

\* /\w+/\{\w+\}
HasParameterSegment(s) ==
    \E i, j, k \in 1..Len(s) :
        /\ i + 1 < j /\ j + 2 < k
        /\ s[i] = "/" /\ s[j] = "/" /\ s[j + 1] = "{" /\ s[k] = "}"
        /\ \A m \in (i + 1)..(j - 1) : IsWordChar(s[m])
        /\ \A m \in (j + 2)..(k - 1) : IsWordChar(s[m])

\* is_endpoint(url)
is_endpoint(url) ==
    LET u == StripQuotes(url)
    IN  \/ \E sub \in ApiSubstrings : Has(u, sub)
        \/ \E sub \in ApiSuffixes : EndsWith(u, sub)
        \/ HasVersionSegment(u)
        \/ HasParameterSegment(u)

(***************************************************************************)
(* RegexAnalyzer.discover_endpoints (core/regex_analyzer.py)               *)
(* A match is what re.finditer and the searches of its context window      *)
(* give: the captured groups, the method and the auth found in the window, *)
(* and the line of the match.                                              *)
(***************************************************************************)

Match(groups, method, auth, line) ==
    [groups |-> groups, method |-> method, auth |-> auth, line |-> line]

STR_get == <<"g", "e", "t">>
STR_post == <<"p", "o", "s", "t">>

\* word.upper(), for the method names the model uses
Upper(word) ==
    CASE word = STR_get -> "GET"
      [] word = STR_post -> "POST"

\* method = "UNKNOWN"; if method_match: method = method_match.group(1).upper()
\* (method_match is the first method name in the context window, if any)
DetectMethod(method_match) ==
    IF method_match = <<>> THEN "UNKNOWN" ELSE Upper(method_match[1])

\* group and ("/" in group or "api" in group.lower())
IsPathGroup(group) ==
    group # <<>> /\ ("/" \in Range(group) \/ Has(group, <<"a", "p", "i">>))

\* the first group that bears a path, as a list of zero or one string
RECURSIVE PathGroup(_)
PathGroup(groups) ==
    IF groups = <<>> THEN <<>>
    ELSE IF IsPathGroup(Head(groups)) THEN <<Head(groups)>>
    ELSE PathGroup(Tail(groups))

\* the loop body on one match: st holds endpoints and seen_paths
DiscoverMatchNoSeen(st, match) ==
    LET found == PathGroup(match.groups)
    IN  IF found = <<>> \/ found[1] = <<>> THEN st
        ELSE LET path == normalize_path(found[1])
             IN  IF ~is_endpoint(path) THEN st
                 ELSE [endpoints |->
                           Append(st.endpoints,
                                  Endpoint(path, match.method, match.auth, 70,
                                           STR_regex, <<>>, <<match.line>>)),
                       seen_paths |-> st.seen_paths \cup {path}]
DiscoverMatch(st, match) ==
    LET found == PathGroup(match.groups)
    IN  IF found = <<>> \/ found[1] = <<>> THEN st
        ELSE LET path == normalize_path(found[1])
             IN  IF ~is_endpoint(path) \/ path \in st.seen_paths THEN st
                 ELSE [endpoints |->
                           Append(st.endpoints,
                                  Endpoint(path, match.method, match.auth, 70,
                                           STR_regex, <<>>, <<match.line>>)),
                       seen_paths |-> st.seen_paths \cup {path}]

RECURSIVE DiscoverLoop(_, _)
DiscoverLoop(st, matches) ==
    IF matches = <<>> THEN st
    ELSE DiscoverLoop(DiscoverMatch(st, Head(matches)), Tail(matches))

\* discover_endpoints, on the matches of js_content
discover_endpoints(matches) ==
    DiscoverLoop([endpoints |-> <<>>, seen_paths |-> {}], matches).endpoints

(***************************************************************************)
(* JavaScriptAnalysisAgent._generate_stats (core/analysis_agent.py)        *)
(***************************************************************************)

\* "+" in ep.detector
IsCombined(ep) == "+" \in Range(ep.detector)

\* the counters before the for-loop
StatsStart(list) ==
    [total_endpoints |-> Len(list), regex_findings |-> 0, llm_findings |-> 0,
     combined_findings |-> 0, endpoints_with_auth |-> 0]

\* the if/elif chain on ep.detector
CountDetectorCombinedOnly(st, ep) ==
    IF IsCombined(ep)
    THEN [st EXCEPT !.combined_findings = @ + 1]
    ELSE IF ep.detector = STR_regex
    THEN [st EXCEPT !.regex_findings = @ + 1]
    ELSE IF ep.detector = STR_llm
    THEN [st EXCEPT !.llm_findings = @ + 1]
    ELSE st
CountDetector(st, ep) ==
    IF IsCombined(ep)
    THEN [st EXCEPT !.combined_findings = @ + 1,
                    !.regex_findings = @ + 1,
                    !.llm_findings = @ + 1]
    ELSE IF ep.detector = STR_regex
    THEN [st EXCEPT !.regex_findings = @ + 1]
    ELSE IF ep.detector = STR_llm
    THEN [st EXCEPT !.llm_findings = @ + 1]
    ELSE st

\* if ep.auth.required: endpoints_with_auth += 1
CountAuth(st, ep) ==
    IF ep.auth.required THEN [st EXCEPT !.endpoints_with_auth = @ + 1] ELSE st

\* one iteration of the for-loop
StatsIteration(st, ep) == CountAuth(CountDetector(st, ep), ep)

RECURSIVE StatsLoop(_, _)
StatsLoop(st, list) ==
    IF list = <<>> THEN st
    ELSE StatsLoop(StatsIteration(st, Head(list)), Tail(list))

\* _generate_stats(endpoints)
generate_stats(list) == StatsLoop(StatsStart(list), list)

MaxStatsLen == 3

\* a detector name other than 'regex' and 'llm'
STR_ast == <<"a", "s", "t">>

StatsCandidates ==
    {CandidateOf("GET", 70, d, a) :
        d \in FuseDetectors \cup {STR_ast}, a \in {AuthNone, AuthBearer}}

StatsInit ==
    /\ stats_endpoints \in SeqsUpTo(StatsCandidates, MaxStatsLen)
    /\ stats_idx = 1
    /\ stats = StatsStart(stats_endpoints)
    /\ stats_pc = "loop"
    /\ FuseIdle
    /\ ChunkIdle
    /\ LLMIdle
    /\ NormIdle
    /\ AnalyzeIdle
    /\ MainIdle

\* the loop body on the endpoint the loop is at
StatsBody ==
    /\ stats_pc = "loop"
    /\ stats_idx <= Len(stats_endpoints)
    /\ stats' = StatsIteration(stats, stats_endpoints[stats_idx])
    /\ stats_idx' = stats_idx + 1
    /\ UNCHANGED <<stats_endpoints, stats_pc, fuseVars, chunkVars, llmVars, normVars,
                   analyzeVars, mainVars>>

\* an iteration on a combined finding
StatsCombined ==
    /\ stats_idx <= Len(stats_endpoints)
    /\ IsCombined(stats_endpoints[stats_idx])
    /\ StatsBody

\* an iteration on a finding of the pattern detector alone
StatsRegex ==
    /\ stats_idx <= Len(stats_endpoints)
    /\ ~IsCombined(stats_endpoints[stats_idx])
    /\ stats_endpoints[stats_idx].detector = STR_regex
    /\ StatsBody

\* an iteration on a finding of the semantic detector alone
StatsLLM ==
    /\ stats_idx <= Len(stats_endpoints)
    /\ ~IsCombined(stats_endpoints[stats_idx])
    /\ stats_endpoints[stats_idx].detector = STR_llm
    /\ StatsBody

\* an iteration on an endpoint none of the branches counts
StatsOther ==
    /\ stats_idx <= Len(stats_endpoints)
    /\ ~IsCombined(stats_endpoints[stats_idx])
    /\ stats_endpoints[stats_idx].detector \notin {STR_regex, STR_llm}
    /\ StatsBody

\* return the dict of the counters
StatsReturn ==
    /\ stats_pc = "loop"
    /\ stats_idx > Len(stats_endpoints)
    /\ stats_pc' = "done"
    /\ UNCHANGED <<stats_endpoints, stats_idx, stats, fuseVars, chunkVars, llmVars,
                   normVars, analyzeVars, mainVars>>

StatsNext == StatsCombined \/ StatsRegex \/ StatsLLM \/ StatsOther \/ StatsReturn

SpecStats == StatsInit /\ [][StatsNext]_vars

\* the number of endpoints of list that satisfy P
CountOf(list, P(_)) == Cardinality({i \in 1..Len(list) : P(list[i])})

IsRegexOnly(ep) == ep.detector = STR_regex
IsLLMOnly(ep) == ep.detector = STR_llm
AuthRequired(ep) == ep.auth.required

\* C13: _generate_stats returns total_endpoints = the list's length,
\* combined_findings = the endpoints whose detector contains '+',
\* regex_findings = those with detector 'regex' plus the combined ones,
\* llm_findings = those with detector 'llm' plus the combined ones,
\* endpoints_with_auth = those whose auth is required; an endpoint with
\* another detector name raises nothing and is counted in total_endpoints
\* (and endpoints_with_auth) only.
C13_StatsCounts ==
    stats_pc = "done" =>
        /\ stats.total_endpoints = Len(stats_endpoints)
        /\ stats.combined_findings = CountOf(stats_endpoints, IsCombined)
        /\ stats.regex_findings =
               CountOf(stats_endpoints, IsRegexOnly) + stats.combined_findings
        /\ stats.llm_findings =
               CountOf(stats_endpoints, IsLLMOnly) + stats.combined_findings
        /\ stats.endpoints_with_auth = CountOf(stats_endpoints, AuthRequired)

\* one 'regex', one 'llm+regex' and one endpoint of another detector, which
\* requires auth: regex_findings = 2, llm_findings = 1, combined_findings = 1
C13_Witness ==
    /\ stats_pc = "done"
    /\ Len(stats_endpoints) = 3
    /\ stats_endpoints[1].detector = STR_regex
    /\ stats_endpoints[2].detector = STR_llm_regex
    /\ stats_endpoints[3].detector = STR_ast
    /\ stats_endpoints[3].auth.required
    /\ stats.total_endpoints = 3
    /\ stats.regex_findings = 2
    /\ stats.llm_findings = 1
    /\ stats.combined_findings = 1
    /\ stats.endpoints_with_auth >= 1

(***************************************************************************)
(* JavaScriptAnalysisAgent.analyze (core/analysis_agent.py)                *)
(***************************************************************************)

\* analyze_endpoints on chunks whose capability responses are resps
RECURSIVE analyze_endpoints(_, _)
analyze_endpoints(chs, resps) ==
    IF chs = <<>> THEN <<>>
    ELSE TryBlock(Head(resps), Head(chs).start_line).appended
             \o analyze_endpoints(Tail(chs), Tail(resps))

MaxFindings == 2

STR_api_u == <<"/", "a", "p", "i", "/", "u">>
STR_api__u == <<"/", "a", "p", "i", "/", "/", "u">>
STR_x == <<"/", "x">>
AnalyzePaths == {STR_api_u, STR_api__u, STR_x}

\* the matches of the patterns: one group, with or without 'get' in the
\* context window, or the method name and the path for $.post('...')
JsMatches ==
    {Match(<<g>>, DetectMethod(w), AuthNone, 3) :
        g \in AnalyzePaths, w \in {<<>>, <<STR_get>>}}
        \cup {Match(<<STR_post, STR_api_u>>, DetectMethod(<<STR_post>>), AuthBearer, 2)}

JsRecords ==
    {Rec(TRUE, JStr(g), m, JAbsent, JAbsent, JAbsent, JAbsent, JAbsent) :
        g \in AnalyzePaths, m \in {JAbsent, JStr("GET")}}

JsResponses ==
    {Response("chat_raises", <<>>)}
        \cup {Response("ok", recs) : recs \in SeqsUpTo(JsRecords, MaxFindings)}

\* a file short enough for one chunk, which starts on line 1
JsChunks == <<[start_line |-> 1]>>

AnalyzeInit ==
    /\ js_matches \in SeqsUpTo(JsMatches, MaxFindings)
    /\ js_response \in JsResponses
    /\ regex_endpoints = <<>>
    /\ llm_endpoints = <<>>
    /\ fused_endpoints = <<>>
    /\ analyze_pc = "start"
    /\ results = <<>>
    /\ FuseIdle
    /\ ChunkIdle
    /\ LLMIdle
    /\ NormIdle
    /\ StatsIdle
    /\ MainIdle

\* regex_endpoints = self.regex.discover_endpoints(js_content)
AnalyzeRegex ==
    /\ analyze_pc = "start"
    /\ regex_endpoints' = discover_endpoints(js_matches)
    /\ analyze_pc' = "regex_done"
    /\ UNCHANGED <<js_matches, js_response, llm_endpoints, fused_endpoints, results,
                   fuseVars, chunkVars, llmVars, normVars, statsVars, mainVars>>

\* llm_endpoints = self.llm.analyze_endpoints(js_content, self.config)
AnalyzeLLM ==
    /\ analyze_pc = "regex_done"
    /\ llm_endpoints' = analyze_endpoints(JsChunks, <<js_response>>)
    /\ analyze_pc' = "llm_done"
    /\ UNCHANGED <<js_matches, js_response, regex_endpoints, fused_endpoints, results,
                   fuseVars, chunkVars, llmVars, normVars, statsVars, mainVars>>

\* all_endpoints = self._deduplicate_endpoints(regex_endpoints + llm_endpoints)
AnalyzeDeduplicate ==
    /\ analyze_pc = "llm_done"
    /\ fused_endpoints' = DeduplicateEndpoints(regex_endpoints \o llm_endpoints)
    /\ analyze_pc' = "fused"
    /\ UNCHANGED <<js_matches, js_response, regex_endpoints, llm_endpoints, results,
                   fuseVars, chunkVars, llmVars, normVars, statsVars, mainVars>>

\* _endpoint_to_dict(endpoint): a key that is left out is <<>>
endpoint_to_dict(endpoint) ==
    [path |-> endpoint.path,
     method |-> endpoint.method,
     detector |-> endpoint.detector,
     confidence |-> endpoint.confidence,
     line_number |-> endpoint.line_number,
     usage_context |-> IF endpoint.context # <<>> THEN <<endpoint.context>> ELSE <<>>,
     auth |-> IF endpoint.auth.required THEN <<endpoint.auth>> ELSE <<>>]

\* stats = self._generate_stats(all_endpoints); return {...}
AnalyzeReturn ==
    /\ analyze_pc = "fused"
    /\ results' = <<[summary |-> generate_stats(fused_endpoints),
                     endpoints |-> [i \in 1..Len(fused_endpoints) |->
                                       endpoint_to_dict(fused_endpoints[i])]]>>
    /\ analyze_pc' = "done"
    /\ UNCHANGED <<js_matches, js_response, regex_endpoints, llm_endpoints,
                   fused_endpoints, fuseVars, chunkVars, llmVars, normVars,
                   statsVars, mainVars>>

AnalyzeNext == AnalyzeRegex \/ AnalyzeLLM \/ AnalyzeDeduplicate \/ AnalyzeReturn

SpecAnalyze == AnalyzeInit /\ [][AnalyzeNext]_vars

\* the normalized path of a match, as a list of zero or one string
MatchPath(match) ==
    IF PathGroup(match.groups) = <<>> THEN <<>>
    ELSE <<normalize_path(PathGroup(match.groups)[1])>>

\* the matches that are the first of their normalized path, which is an
\* endpoint path
FirstOfPath(matches) ==
    {i \in 1..Len(matches) :
        /\ MatchPath(matches[i]) # <<>>
        /\ is_endpoint(MatchPath(matches[i])[1])
        /\ \A j \in 1..(i - 1) : MatchPath(matches[j]) # MatchPath(matches[i])}

RECURSIVE SortedNats(_)
SortedNats(S) ==
    IF S = {} THEN <<>>
    ELSE LET m == CHOOSE x \in S : \A y \in S : x <= y
         IN  <<m>> \o SortedNats(S \ {m})

HttpMethods == {"GET", "POST", "PUT", "DELETE", "PATCH", "UNKNOWN"}

\* C18: within one run of discover_endpoints no two emitted endpoints have
\* the same normalized path: the first match of a path is emitted, with the
\* method of that match, and every later match of the path is rejected;
\* every emitted endpoint has confidence 0.7, detector 'regex' and a method
\* in {GET, POST, PUT, DELETE, PATCH, UNKNOWN}.
C18_FirstMatchOfPathWins ==
    analyze_pc \notin {"idle", "start"} =>
        LET first == SortedNats(FirstOfPath(js_matches))
        IN  /\ \A i, j \in 1..Len(regex_endpoints) :
                   i # j => regex_endpoints[i].path # regex_endpoints[j].path
            /\ Len(regex_endpoints) = Len(first)
            /\ \A k \in 1..Len(regex_endpoints) :
                   /\ k <= Len(first)
                   /\ regex_endpoints[k].path = MatchPath(js_matches[first[k]])[1]
                   /\ regex_endpoints[k].method = js_matches[first[k]].method
                   /\ regex_endpoints[k].confidence = 70
                   /\ regex_endpoints[k].detector = STR_regex
                   /\ regex_endpoints[k].method \in HttpMethods

\* two matches whose paths normalize to the same string and whose contexts
\* imply different methods: one endpoint, with the first match's method
C18_Witness ==
    /\ analyze_pc \notin {"idle", "start"}
    /\ Len(js_matches) = 2
    /\ js_matches[1].groups # js_matches[2].groups
    /\ MatchPath(js_matches[1]) = MatchPath(js_matches[2])
    /\ js_matches[1].method = "UNKNOWN"
    /\ js_matches[2].method = "GET"
    /\ Len(regex_endpoints) = 1
    /\ regex_endpoints[1].method = "UNKNOWN"

\* C10: the key is taken after normalization for both detectors: the result
\* of analyze() never holds two endpoints whose paths normalize to the same
\* string and whose methods are equal.
C10_KeyAfterNormalization ==
    analyze_pc = "fused" =>
        \A i, j \in 1..Len(fused_endpoints) :
            i # j =>
                ~(/\ normalize_path(fused_endpoints[i].path)
                        = normalize_path(fused_endpoints[j].path)
                  /\ fused_endpoints[i].method = fused_endpoints[j].method)

\* the endpoints the two detectors hand to the fuser
FuserInput == regex_endpoints \o llm_endpoints

\* C21: an endpoint produced by a cross-detector merge has no line_number,
\* whatever line numbers its two inputs carried, while an endpoint that was
\* never merged is one of the detectors' endpoints and keeps its
\* line_number; the serialized record of a combined finding has no
\* line_number key and that of any other finding has its endpoint's.
C21_CombinedHasNoLine ==
    /\ analyze_pc \in {"fused", "done"} =>
           \A i \in 1..Len(fused_endpoints) :
               IF IsCombined(fused_endpoints[i])
               THEN fused_endpoints[i].line_number = <<>>
               ELSE /\ fused_endpoints[i] \in Range(FuserInput)
                    /\ fused_endpoints[i].line_number # <<>>
    /\ analyze_pc = "done" =>
           /\ Len(results[1].endpoints) = Len(fused_endpoints)
           /\ \A i \in 1..Len(fused_endpoints) :
                  /\ results[1].endpoints[i].line_number
                         = fused_endpoints[i].line_number
                  /\ IsCombined(fused_endpoints[i]) =>
                         results[1].endpoints[i].line_number = <<>>

\* the pattern detector's finding on line 3 and the semantic detector's on
\* line 1 are merged into a record without line_number, next to a finding
\* that was not merged and is serialized with its line
C21_Witness ==
    /\ analyze_pc = "done"
    /\ \E i \in 1..Len(regex_endpoints) : \E j \in 1..Len(llm_endpoints) :
           /\ KeyOf(regex_endpoints[i]) = KeyOf(llm_endpoints[j])
           /\ regex_endpoints[i].line_number = <<3>>
           /\ llm_endpoints[j].line_number = <<1>>
    /\ \E i \in 1..Len(results[1].endpoints) :
           /\ results[1].endpoints[i].detector = STR_llm_regex
           /\ results[1].endpoints[i].line_number = <<>>
    /\ \E i \in 1..Len(results[1].endpoints) :
           /\ results[1].endpoints[i].detector = STR_llm
           /\ results[1].endpoints[i].line_number = <<1>>

(***************************************************************************)
(* main (src/main.py)                                                      *)
(* A line of standard output is the text its print call starts with.  The  *)
(* process exits with status 0 when main returns and with status 1 when an *)
(* exception leaves main.                                                  *)
(***************************************************************************)

MaxShown == 2

\* the step of the run that raises: load_config (ConfigurationError),
\* _load_javascript (FileNotFoundError), the analysis after the source is
\* read (such as config["system_prompt"] on a config without the key), or
\* open(args.output, "w")
MainFaults == {"none", "config", "source", "analysis", "output"}

MainArgs == [debug : BOOLEAN, json : BOOLEAN, output : BOOLEAN]

ShownEndpoints ==
    {endpoint_to_dict(CandidateOf("GET", 70, d, a)) :
        d \in {STR_regex, STR_llm_regex}, a \in {AuthNone, AuthBearer}}

MainInit ==
    /\ main_args \in MainArgs
    /\ main_fault \in MainFaults
    /\ main_endpoints \in SeqsUpTo(ShownEndpoints, MaxShown)
    /\ stdout = <<>>
    /\ exit_status = <<>>
    /\ main_pc = "start"
    /\ FuseIdle
    /\ ChunkIdle
    /\ LLMIdle
    /\ NormIdle
    /\ AnalyzeIdle
    /\ StatsIdle

\* the other variables a step of main leaves alone
MainFrame ==
    UNCHANGED <<main_args, main_fault, main_endpoints, fuseVars, chunkVars, llmVars,
                normVars, analyzeVars, statsVars>>

\* setup_logging(...); config = load_config(args.config)
MainLoadConfig ==
    /\ main_pc = "start"
    /\ main_fault # "config"
    /\ main_pc' = "loaded"
    /\ UNCHANGED <<stdout, exit_status>>
    /\ MainFrame

MainLoadConfigRaises ==
    /\ main_pc = "start"
    /\ main_fault = "config"
    /\ main_pc' = "caught"
    /\ UNCHANGED <<stdout, exit_status>>
    /\ MainFrame

\* agent = JavaScriptAnalysisAgent(config); results = agent.analyze(args.js)
MainAnalyze ==
    /\ main_pc = "loaded"
    /\ main_fault \notin {"source", "analysis"}
    /\ main_pc' = "analyzed"
    /\ UNCHANGED <<stdout, exit_status>>
    /\ MainFrame

MainAnalyzeRaises ==
    /\ main_pc = "loaded"
    /\ main_fault \in {"source", "analysis"}
    /\ main_pc' = "caught"
    /\ UNCHANGED <<stdout, exit_status>>
    /\ MainFrame

\* the lines printed for one endpoint
EndpointLines(endpoint) ==
    <<"Path", "Method", "Detector", "Confidence">>
        \o (IF endpoint.line_number # <<>> THEN <<"Line">> ELSE <<>>)
        \o (IF endpoint.auth # <<>>
            THEN <<"Auth Required", "Auth Type", "Auth Location">>
            ELSE <<>>)

\* the for-loop over results["endpoints"]
RECURSIVE EndpointsLines(_)
EndpointsLines(list) ==
    IF list = <<>> THEN <<>>
    ELSE EndpointLines(Head(list)) \o EndpointsLines(Tail(list))

\* if args.json: print(json.dumps(results, indent=2))
MainPrintJson ==
    /\ main_pc = "analyzed"
    /\ main_args.json
    /\ stdout' = Append(stdout, "json")
    /\ main_pc' = "printed"
    /\ UNCHANGED exit_status
    /\ MainFrame

\* else: the human-readable summary
MainPrintSummary ==
    /\ main_pc = "analyzed"
    /\ ~main_args.json
    /\ stdout' = stdout
                    \o <<"Analysis Summary", "Total Endpoints", "Found by Regex",
                         "Found by LLM", "Discovered Endpoints">>
                    \o EndpointsLines(main_endpoints)
    /\ main_pc' = "printed"
    /\ UNCHANGED exit_status
    /\ MainFrame

\* if args.output: ... json.dump(results, f, indent=2); main returns
MainSave ==
    /\ main_pc = "printed"
    /\ main_args.output
    /\ main_fault # "output"
    /\ stdout' = IF main_args.json THEN stdout ELSE Append(stdout, "Full results saved")
    /\ main_pc' = "returned"
    /\ exit_status' = <<0>>
    /\ MainFrame

MainSaveRaises ==
    /\ main_pc = "printed"
    /\ main_args.output
    /\ main_fault = "output"
    /\ main_pc' = "caught"
    /\ UNCHANGED <<stdout, exit_status>>
    /\ MainFrame

\* no output path: main returns
MainReturn ==
    /\ main_pc = "printed"
    /\ ~main_args.output
    /\ main_pc' = "returned"
    /\ exit_status' = <<0>>
    /\ UNCHANGED stdout
    /\ MainFrame

\* except Exception as e: print(f"Error: {e}"), debug off: main returns
MainCatch ==
    /\ main_pc = "caught"
    /\ ~main_args.debug
    /\ stdout' = Append(stdout, "Error")
    /\ main_pc' = "returned"
    /\ exit_status' = <<0>>
    /\ MainFrame

\* except Exception as e: print(f"Error: {e}"); if args.debug: raise
MainCatchReraise ==
    /\ main_pc = "caught"
    /\ main_args.debug
    /\ stdout' = Append(stdout, "Error")
    /\ main_pc' = "raised"
    /\ exit_status' = <<1>>
    /\ MainFrame

MainNext ==
    \/ MainLoadConfig
    \/ MainLoadConfigRaises
    \/ MainAnalyze
    \/ MainAnalyzeRaises
    \/ MainPrintJson
    \/ MainPrintSummary
    \/ MainSave
    \/ MainSaveRaises
    \/ MainReturn
    \/ MainCatch
    \/ MainCatchReraise

SpecMain == MainInit /\ [][MainNext]_vars

ErrorLines == Cardinality({i \in 1..Len(stdout) : stdout[i] = "Error"})

\* C14: when configuration loading, source reading or analysis raises,
\* main prints one error line and the process exits with a non-zero status;
\* the error is re-raised only when debug mode is enabled.
C14_ErrorExitsNonZero ==
    (main_pc \in {"returned", "raised"}
        /\ main_fault \in {"config", "source", "analysis"}) =>
        /\ ErrorLines = 1
        /\ exit_status # <<0>>
        /\ main_pc = "raised" => main_args.debug

====
